---------------------------- MODULE Spec2Model ----------------------------
(***************************************************************************)
(* A model of src/scirpt.js: a paint surface with brush and eraser, a      *)
(* bounded undo/redo history of whole-surface snapshots, asynchronous      *)
(* restores and pointer-driven gestures.                                   *)
(*                                                                         *)
(* The bitmap is a function from backing pixels to colours.  "T" is a      *)
(* transparent pixel, "W" the white background, "K" opaque black, the      *)
(* other colours are values of the colour picker.  Coordinates are         *)
(* quantised to whole cells; a curve segment is rasterised as the cells    *)
(* between its end points.                                                 *)
(***************************************************************************)
EXTENDS Integers, Sequences, FiniteSets, TLC

\* scirpt.js:23
MAX_STEPS == 30

\* ---- bounds of the model ------------------------------------------------
\* pointerdowns, clear clicks, tool, colour and size inputs, window resizes
\* and undo or redo calls that act, in one run of Spec, SpecMulti, SpecResize
\* and SpecTools; undo or redo calls that act in one run of SpecNav
MaxOps == 4
\* gestures completed in one run of SpecLong and of SpecNav
LongGestures == 35

\* the value of lastPoint before the first gesture, and of a path with no point
NULL == [null |-> TRUE]

Min(a, b) == IF a < b THEN a ELSE b
Max(a, b) == IF a > b THEN a ELSE b

\* values of the colour picker and of the size range
PickerColors == {"red", "blue"}
Sizes == {1, 3}

\* ---- the bitmap and the 2d context --------------------------------------

Cells(w, h) == (0..(w - 1)) \X (0..(h - 1))

\* A canvas whose width or height has just been set: transparent black.
Bitmap(w, h) == [width |-> w, height |-> h, px |-> [c \in Cells(w, h) |-> "T"]]

\* The context state a canvas has after its width or height is set.
DefaultCtx ==
    [gco |-> "source-over", strokeStyle |-> "K", lineWidth |-> 1, scale |-> 1,
     path |-> {}, cur |-> NULL]

\* One pixel: painting the source colour src over dst under the composite
\* operation gco.  A transparent source leaves the destination as it is.
Composite(gco, dst, src) ==
    IF src = "T" THEN dst
    ELSE IF gco = "destination-out" THEN "T"
    ELSE src

\* ctx.fillStyle = '#ffffff'; ctx.fillRect(0, 0, canvas.width, canvas.height)
\* between save() and restore(): the rectangle, scaled by a transform >= 1,
\* covers every backing pixel; the composite operation is the context's own.
FillBackgroundWhite(cv, cx) ==
    [cv EXCEPT !.px = [c \in DOMAIN cv.px |-> Composite(cx.gco, cv.px[c], "W")]]

\* ctx.clearRect(0, 0, canvas.width, canvas.height): every pixel transparent,
\* whatever the composite operation.
ClearRect(cv) == [cv EXCEPT !.px = [c \in DOMAIN cv.px |-> "T"]]

\* ctx.drawImage(img, 0, 0, dw, dh) where the destination, after the
\* context's transform, is bw x bh backing pixels: nearest-pixel resampling
\* of the image into that rectangle, composited under the context's operation.
DrawImage(cv, cx, img, bw, bh) ==
    IF img.width = 0 \/ img.height = 0 \/ bw = 0 \/ bh = 0 THEN cv
    ELSE [cv EXCEPT !.px =
            [c \in DOMAIN cv.px |->
               IF c[1] < bw /\ c[2] < bh
               THEN Composite(cx.gco, cv.px[c],
                              img.px[<<(c[1] * img.width) \div bw,
                                       (c[2] * img.height) \div bh>>])
               ELSE cv.px[c]]]

\* The backing pixels a stroke of the current path covers: every logical
\* cell within half the line width of a path cell, scaled by the transform.
Covered(cx, c) ==
    LET r == (cx.lineWidth - 1) \div 2
        lx == c[1] \div cx.scale
        ly == c[2] \div cx.scale
    IN \E q \in cx.path :
          /\ q[1] - r <= lx /\ lx <= q[1] + r
          /\ q[2] - r <= ly /\ ly <= q[2] + r

\* ctx.stroke(): the whole current path is painted with the current stroke
\* style under the current composite operation.
Stroke(cv, cx) ==
    [cv EXCEPT !.px =
       [c \in DOMAIN cv.px |->
          IF Covered(cx, c) THEN Composite(cx.gco, cv.px[c], cx.strokeStyle)
          ELSE cv.px[c]]]

\* The cells of the segment between two points (its chord).
SegmentCells(a, b) ==
    {<<x, y>> \in (Min(a.x, b.x)..Max(a.x, b.x)) \X (Min(a.y, b.y)..Max(a.y, b.y)) : TRUE}

\* ctx.beginPath(); ctx.moveTo(point.x, point.y)
BeginPathAt(cx, p) == [cx EXCEPT !.path = {}, !.cur = p]

\* ctx.quadraticCurveTo(cp.x, cp.y, to.x, to.y): with no current point the
\* subpath starts at the control point.
QuadraticCurveTo(cx, cp, to) ==
    LET from == IF cx.cur = NULL THEN cp ELSE cx.cur
    IN [cx EXCEPT !.path = cx.path \cup SegmentCells(from, to), !.cur = to]

\* canvas.toDataURL('image/png'): a lossless encoding of the bitmap and its
\* size.  id numbers the capture (a history label, not read by the program).
ToDataURL(cv, id) == [w |-> cv.width, h |-> cv.height, px |-> cv.px, id |-> id]

\* The image an <img> decodes from a data URL.
Decode(url) == [width |-> url.w, height |-> url.h, px |-> url.px]


\* ---- state ----------------------------------------------------------------

VARIABLES
    drawing,          \* scirpt.js:16
    lastPoint,        \* scirpt.js:17
    tool,             \* scirpt.js:18
    color,            \* scirpt.js:19
    size,             \* scirpt.js:20
    undoStack,        \* scirpt.js:21, oldest first
    redoStack,        \* scirpt.js:22
    canvas,           \* the canvas element's bitmap: [width, height, px]
    ctx,              \* the 2d context's state
    undoBtnDisabled,  \* undoBtn.disabled
    redoBtnDisabled,  \* redoBtn.disabled
    captured,         \* pointer ids the canvas holds the capture of
    pending,          \* images created by restoreFromDataURL, not yet loaded
    rect,             \* canvas.getBoundingClientRect(): the display size
    dpr,              \* window.devicePixelRatio
    resizeTimer,      \* whether the debounce timer of line 75 is set
    last,             \* history: the handler that ran last, and how it ended
    gesturePointer,   \* history: the pointer whose pointerdown began the gesture
    count,            \* history: operations, completed gestures, captures, restores so far
    trip              \* history: the progress of an undo-then-redo round trip

progVars == <<drawing, lastPoint, tool, color, size, undoStack, redoStack, canvas,
              ctx, undoBtnDisabled, redoBtnDisabled, captured, pending>>
envVars == <<rect, dpr, resizeTimer>>
vars == <<drawing, lastPoint, tool, color, size, undoStack, redoStack, canvas,
          ctx, undoBtnDisabled, redoBtnDisabled, captured, pending,
          rect, dpr, resizeTimer, last, gesturePointer, count, trip>>

\* ---- the history manager, as functions of the lists and the two buttons --

\* The lists and the buttons as one value: [undo, redo, undoDis, redoDis].
Hist == [undo |-> undoStack, redo |-> redoStack,
         undoDis |-> undoBtnDisabled, redoDis |-> redoBtnDisabled]

UpdateUndoRedoButtons(h) ==
    [h EXCEPT !.undoDis = (Len(h.undo) <= 1), !.redoDis = (Len(h.redo) = 0)]

\* pushUndo() that evicts once the list is full, not once it is over-full
PushUndoEvictsEarly(h, cv, id, encOk) ==
    IF encOk
    THEN LET pushed == Append(h.undo, ToDataURL(cv, id))
             capped == IF Len(pushed) >= MAX_STEPS THEN Tail(pushed) ELSE pushed
         IN [h |-> UpdateUndoRedoButtons([h EXCEPT !.undo = capped]), threw |-> FALSE]
    ELSE [h |-> h, threw |-> FALSE]

\* pushUndo() that evicts with pop() instead of shift(): the newest entry goes
PushUndoEvictsNewest(h, cv, id, encOk) ==
    IF encOk
    THEN LET pushed == Append(h.undo, ToDataURL(cv, id))
             capped == IF Len(pushed) > MAX_STEPS
                       THEN SubSeq(pushed, 1, Len(pushed) - 1) ELSE pushed
         IN [h |-> UpdateUndoRedoButtons([h EXCEPT !.undo = capped]), threw |-> FALSE]
    ELSE [h |-> h, threw |-> FALSE]

\* pushUndo() without its try/catch: the encoding error leaves pushUndo
PushUndoNoCatch(h, cv, id, encOk) ==
    IF encOk
    THEN LET pushed == Append(h.undo, ToDataURL(cv, id))
             capped == IF Len(pushed) > MAX_STEPS THEN Tail(pushed) ELSE pushed
         IN [h |-> UpdateUndoRedoButtons([h EXCEPT !.undo = capped]), threw |-> FALSE]
    ELSE [h |-> h, threw |-> TRUE]

\* pushUndo(): encOk says whether canvas.toDataURL returned (TRUE) or threw.
\* The result names the lists and buttons afterwards and whether pushUndo
\* itself ended by throwing.
PushUndo(h, cv, id, encOk) ==
    IF encOk
    THEN LET pushed == Append(h.undo, ToDataURL(cv, id))
             capped == IF Len(pushed) > MAX_STEPS THEN Tail(pushed) ELSE pushed
         IN [h |-> UpdateUndoRedoButtons([h EXCEPT !.undo = capped]), threw |-> FALSE]
    ELSE [h |-> h, threw |-> FALSE]

\* a guard that lets the last entry be undone
UndoActsOffByOne(h) == ~(Len(h.undo) <= 0)

\* undo() passes its guard of line 157
UndoActs(h) == ~(Len(h.undo) <= 1)

\* redo() passes its guard of line 166
RedoActs(h) == ~(Len(h.redo) = 0)

\* undo() that pops the newest entry without pushing it onto the redo list
UndoListsDropsEntry(h) ==
    IF ~UndoActs(h) THEN h
    ELSE UpdateUndoRedoButtons(
            [h EXCEPT !.undo = SubSeq(h.undo, 1, Len(h.undo) - 1)])

\* undo(), the part on the lists; the restore it issues is the new top.
UndoLists(h) ==
    IF ~UndoActs(h) THEN h
    ELSE UpdateUndoRedoButtons(
            [h EXCEPT !.undo = SubSeq(h.undo, 1, Len(h.undo) - 1),
                      !.redo = Append(h.redo, h.undo[Len(h.undo)])])

\* redo(), the part on the lists; the restore it issues is the entry moved.
RedoLists(h) ==
    IF ~RedoActs(h) THEN h
    ELSE UpdateUndoRedoButtons(
            [h EXCEPT !.redo = SubSeq(h.redo, 1, Len(h.redo) - 1),
                      !.undo = Append(h.undo, h.redo[Len(h.redo)])])

\* img.onload of restoreFromDataURL: clear, white background, then the image
\* drawn canvas.width / dpr by canvas.height / dpr units under the transform.
OnloadDraw(cv, cx, url, d) ==
    LET dd == IF d = 0 THEN 1 ELSE d
    IN DrawImage(FillBackgroundWhite(ClearRect(cv), cx), cx, Decode(url),
                 (cv.width * cx.scale) \div dd, (cv.height * cx.scale) \div dd)

\* resizeCanvas(): the bitmap and context afterwards, and whether it threw.
\* Line 36 draws the canvas into temp: drawImage throws InvalidStateError for
\* a source canvas with no pixels, before anything is assigned, so a canvas
\* of width or height 0 is left as it is (and the fillBackgroundWhite branch
\* of line 49, taken only for such a canvas, is never reached).  Otherwise
\* setting canvas.width resets the bitmap and the context, and the old
\* content is drawn back temp.width / dpr units wide under the transform
\* dpr: temp.width backing pixels, that is pixel for pixel from the corner.
ResizeCanvas(cv, cx, r, d) ==
    LET ratio == Max(IF d = 0 THEN 1 ELSE d, 1)
        fresh == Bitmap(r.width * ratio, r.height * ratio)
        ncx == [DefaultCtx EXCEPT !.scale = ratio]
    IN IF cv.width = 0 \/ cv.height = 0
       THEN [cv |-> cv, cx |-> cx, threw |-> TRUE]
       ELSE [cv |-> DrawImage(fresh, ncx, cv, cv.width, cv.height),
             cx |-> ncx, threw |-> FALSE]

\* setBrush() and setEraser(), on the context.
SetBrushCtx(cx, c) == [cx EXCEPT !.gco = "source-over", !.strokeStyle = c]
SetEraserCtx(cx) == [cx EXCEPT !.gco = "destination-out", !.strokeStyle = "K"]

\* getPoint(ev): the event's position relative to the element, scaled by
\* backing size over display size, divided by the pixel ratio.
GetPoint(ev, cv, r, d) ==
    LET ratio == Max(IF d = 0 THEN 1 ELSE d, 1)
    IN IF r.width = 0 \/ r.height = 0 THEN NULL
       ELSE [x |-> (ev.x * cv.width) \div (r.width * ratio),
             y |-> (ev.y * cv.height) \div (r.height * ratio)]

\* (lastPoint + point) / 2, quantised to a cell
MidPoint(a, b) == [x |-> (a.x + b.x) \div 2, y |-> (a.y + b.y) \div 2]

\* ---- the handlers ---------------------------------------------------------

SetHist(h) ==
    /\ undoStack' = h.undo
    /\ redoStack' = h.redo
    /\ undoBtnDisabled' = h.undoDis
    /\ redoBtnDisabled' = h.redoDis

\* History only: the handler that ran, the pointer id of its event (0 for
\* none), whether it passed its guard, how its capture went ("none" when it
\* made none) and whether it ended by throwing.
Ran(op, id, acted, enc, threw) ==
    [op |-> op, id |-> id, acted |-> acted, enc |-> enc, threw |-> threw]

Enc(encOk) == IF encOk THEN "ok" ELSE "failed"

NoTrip == [phase |-> "none", before |-> NULL, quiet |-> FALSE,
           start |-> NULL, zeroed |-> NULL]

\* History only.  phase follows a round trip: an undo issued with no gesture
\* active and no restore pending ("undone", before is the surface then), its
\* restore ("back"), a redo ("redone"), its restore ("done").  quiet says that
\* since the last moment with no restore pending, only undo, redo and image
\* loads have run.  start is the tool state read by the latest pointerdown,
\* while no resizeCanvas has run since.
\* zeroed is the surface a resizeCanvas found when it ran at a display size
\* of zero, kept while only resizes follow; back says that a resizeCanvas at
\* a non-zero display size has run since.
Track(l) ==
    LET restoring == l.op \in {"undo", "redo", "onload"}
        q == restoring /\ (pending = {} \/ trip.quiet)
        ph == IF l.op = "undo" /\ l.acted /\ ~drawing /\ pending = {} THEN "undone"
              ELSE IF trip.phase = "undone" /\ l.op = "onload" THEN "back"
              ELSE IF trip.phase = "back" /\ l.op = "redo" /\ l.acted THEN "redone"
              ELSE IF trip.phase = "redone" /\ l.op = "onload" THEN "done"
              ELSE "none"
        bf == IF ph = "undone" THEN canvas
              ELSE IF ph = "none" THEN NULL
              ELSE trip.before
        st == IF l.op = "pointerdown"
                THEN [tool |-> tool, color |-> color, size |-> size]
              ELSE IF l.op = "resizeCanvas" THEN NULL
              ELSE trip.start
        zeroRect == rect.width = 0 \/ rect.height = 0
        zr == IF l.op = "resizeCanvas" /\ zeroRect /\ ~l.threw
                THEN [cv |-> canvas, back |-> FALSE]
              ELSE IF l.op = "resizeCanvas" /\ trip.zeroed /= NULL
                THEN IF trip.zeroed.back \/ zeroRect THEN NULL
                     ELSE [trip.zeroed EXCEPT !.back = TRUE]
              ELSE IF l.op = "resize" THEN trip.zeroed
              ELSE NULL
    IN trip' = [phase |-> ph, before |-> bf, quiet |-> q, start |-> st, zeroed |-> zr]

\* A handler that returns at its guard: nothing of the program changes.
Returns(op, id) ==
    /\ last' = Ran(op, id, FALSE, "none", FALSE)
    /\ Track(last')
    /\ UNCHANGED <<progVars, envVars, gesturePointer, count>>

\* startDrawing(point), on the context
StartDrawingCtx(cx, p, t, c, s) ==
    BeginPathAt([cx EXCEPT !.lineWidth = s,
                           !.strokeStyle = IF t = "brush" THEN c ELSE "K"], p)

\* canvas 'pointerdown' listener: setPointerCapture, getPoint, startDrawing
PointerDown(id, ev) ==
    /\ captured' = captured \cup {id}
    /\ drawing' = TRUE
    /\ lastPoint' = GetPoint(ev, canvas, rect, dpr)
    /\ ctx' = StartDrawingCtx(ctx, lastPoint', tool, color, size)
    /\ gesturePointer' = IF drawing THEN gesturePointer ELSE id
    /\ count' = [count EXCEPT !.ops = @ + 1]
    /\ last' = Ran("pointerdown", id, TRUE, "none", FALSE)
    /\ Track(last')
    /\ UNCHANGED <<tool, color, size, undoStack, redoStack, canvas, undoBtnDisabled,
                   redoBtnDisabled, pending, envVars>>

\* drawTo(point), on the context: the curve to the midpoint, lastPoint as
\* control.  quadraticCurveTo ignores a call with a non-finite argument.
DrawToCtx(cx, lp, p) ==
    IF lp = NULL \/ p = NULL THEN cx
    ELSE QuadraticCurveTo(cx, lp, MidPoint(lp, p))

\* canvas 'pointermove' listener: getPoint, drawTo
PointerMove(id, ev) ==
    IF ~drawing THEN Returns("pointermove", id)
    ELSE /\ ctx' = DrawToCtx(ctx, lastPoint, GetPoint(ev, canvas, rect, dpr))
         /\ canvas' = Stroke(canvas, ctx')
         /\ lastPoint' = GetPoint(ev, canvas, rect, dpr)
         /\ last' = Ran("pointermove", id, TRUE, "none", FALSE)
         /\ Track(last')
         /\ UNCHANGED <<drawing, tool, color, size, undoStack, redoStack,
                        undoBtnDisabled, redoBtnDisabled, captured, pending,
                        envVars, gesturePointer, count>>

\* endDrawing() that keeps the redo list
EndDrawingHistKeepsRedo(h, cv, id, encOk) ==
    LET r == PushUndo(h, cv, id, encOk)
    IN IF r.threw THEN r
       ELSE [h |-> UpdateUndoRedoButtons(r.h), threw |-> FALSE]

\* endDrawing() without its last line, the update of the buttons
EndDrawingHistNoUpdate(h, cv, id, encOk) ==
    LET r == PushUndo(h, cv, id, encOk)
    IN IF r.threw THEN r
       ELSE [h |-> [r.h EXCEPT !.redo = <<>>], threw |-> FALSE]

\* endDrawing() after its guard, on the lists and buttons: pushUndo, then the
\* redo list is emptied and the buttons updated.
EndDrawingHist(h, cv, id, encOk) ==
    LET r == PushUndo(h, cv, id, encOk)
    IN IF r.threw THEN r
       ELSE [h |-> UpdateUndoRedoButtons([r.h EXCEPT !.redo = <<>>]), threw |-> FALSE]

\* the listeners without "if (!drawing) return", over an endDrawing without it
EndGestureUnguarded(op, id, encOk) ==
    LET r == PushUndo(Hist, canvas, count.caps, encOk)
    IN /\ captured' = captured \ {id}
       /\ drawing' = FALSE
       /\ SetHist(UpdateUndoRedoButtons([r.h EXCEPT !.redo = <<>>]))
       /\ last' = [op |-> op, id |-> id, acted |-> drawing, enc |-> Enc(encOk),
                   threw |-> FALSE]
       /\ Track(last')
       /\ gesturePointer' = 0
       /\ count' = [count EXCEPT !.done = @ + 1,
                                 !.caps = IF encOk THEN @ + 1 ELSE @,
                                 !.fails = IF encOk THEN @ ELSE 1]
       /\ UNCHANGED <<lastPoint, tool, color, size, canvas, ctx, pending, envVars>>

\* canvas 'pointerup' and 'pointercancel' listeners (op names which):
\* releasePointerCapture, endDrawing.  ctx.closePath() paints nothing, and the
\* path it closes is dropped by the next gesture's beginPath() before any
\* stroke(), so the context is left as it is.
EndGesture(op, id, encOk) ==
    IF ~drawing THEN Returns(op, id)
    ELSE LET r == EndDrawingHist(Hist, canvas, count.caps, encOk)
         IN /\ captured' = captured \ {id}
            /\ drawing' = FALSE
            /\ SetHist(r.h)
            /\ last' = Ran(op, id, TRUE, Enc(encOk), r.threw)
            /\ Track(last')
            /\ gesturePointer' = 0
            /\ count' = [count EXCEPT !.done = @ + 1,
                                      !.caps = IF encOk THEN @ + 1 ELSE @,
                                      !.fails = IF encOk THEN @ ELSE 1]
            /\ UNCHANGED <<lastPoint, tool, color, size, canvas, ctx, pending, envVars>>

PointerUp(id, encOk) == EndGesture("pointerup", id, encOk)

PointerCancel(id, encOk) == EndGesture("pointercancel", id, encOk)

\* restoreFromDataURL(dataURL): a new image starts to load
RestoreFromDataURL(p, url, n) == p \cup {[req |-> n, url |-> url]}

\* undo(): undoBtn click, ctrl/cmd+z
Undo ==
    IF ~UndoActs(Hist) THEN Returns("undo", 0)
    ELSE /\ SetHist(UndoLists(Hist))
         \* if (prev): the list may have no entry left only if the guard let
         \* a list of one entry through
         /\ pending' = IF Len(undoStack') > 0
                       THEN RestoreFromDataURL(pending, undoStack'[Len(undoStack')],
                                               count.reqs + 1)
                       ELSE pending
         /\ count' = [count EXCEPT !.reqs = @ + 1, !.ops = @ + 1]
         /\ last' = Ran("undo", 0, TRUE, "none", FALSE)
         /\ Track(last')
         /\ UNCHANGED <<drawing, lastPoint, tool, color, size, canvas, ctx, captured,
                        envVars, gesturePointer>>

\* redo(): redoBtn click, ctrl/cmd+y, ctrl/cmd+shift+z
Redo ==
    IF ~RedoActs(Hist) THEN Returns("redo", 0)
    ELSE /\ SetHist(RedoLists(Hist))
         /\ pending' = RestoreFromDataURL(pending, redoStack[Len(redoStack)],
                                          count.reqs + 1)
         /\ count' = [count EXCEPT !.reqs = @ + 1, !.ops = @ + 1]
         /\ last' = Ran("redo", 0, TRUE, "none", FALSE)
         /\ Track(last')
         /\ UNCHANGED <<drawing, lastPoint, tool, color, size, canvas, ctx, captured,
                        envVars, gesturePointer>>

\* img.onload of one pending restore; the images load in any order.  The
\* data URL of a canvas with no pixels ("data:,") is no image: its load
\* fails, and the program listens to no error event.
ImgOnload(r) ==
    /\ r \in pending
    /\ canvas' = IF r.url.w = 0 \/ r.url.h = 0 THEN canvas
                 ELSE OnloadDraw(canvas, ctx, r.url, dpr)
    /\ pending' = pending \ {r}
    /\ last' = Ran(IF r.url.w = 0 \/ r.url.h = 0 THEN "onerror" ELSE "onload",
                   r.req, TRUE, "none", FALSE)
    /\ Track(last')
    /\ UNCHANGED <<drawing, lastPoint, tool, color, size, undoStack, redoStack, ctx,
                   undoBtnDisabled, redoBtnDisabled, captured, envVars,
                   gesturePointer, count>>

\* clearBtn click, on the lists and buttons
ClearHist(h, cv, id, encOk) ==
    LET r == PushUndo(h, cv, id, encOk)
    IN IF r.threw THEN r
       ELSE [h |-> UpdateUndoRedoButtons([r.h EXCEPT !.redo = <<>>]), threw |-> FALSE]

\* clearBtn click, on the bitmap
ClearCanvas(cv, cx) == FillBackgroundWhite(ClearRect(cv), cx)

\* clearBtn click
Clear(encOk) ==
    LET r == ClearHist(Hist, canvas, count.caps, encOk)
    IN /\ SetHist(r.h)
       /\ canvas' = IF r.threw THEN canvas ELSE ClearCanvas(canvas, ctx)
       /\ count' = [count EXCEPT !.ops = @ + 1,
                                 !.caps = IF encOk THEN @ + 1 ELSE @,
                                      !.fails = IF encOk THEN @ ELSE 1]
       /\ last' = Ran("clear", 0, TRUE, Enc(encOk), r.threw)
       /\ Track(last')
       /\ UNCHANGED <<drawing, lastPoint, tool, color, size, ctx, captured, pending,
                      envVars, gesturePointer>>

\* setBrush(): brushBtn click, key b
SetBrush ==
    /\ tool' = "brush"
    /\ ctx' = SetBrushCtx(ctx, color)
    /\ count' = [count EXCEPT !.ops = @ + 1]
    /\ last' = Ran("setBrush", 0, TRUE, "none", FALSE)
    /\ Track(last')
    /\ UNCHANGED <<drawing, lastPoint, color, size, undoStack, redoStack, canvas,
                   undoBtnDisabled, redoBtnDisabled, captured, pending, envVars,
                   gesturePointer>>

\* setEraser(): eraserBtn click, key e
SetEraser ==
    /\ tool' = "eraser"
    /\ ctx' = SetEraserCtx(ctx)
    /\ count' = [count EXCEPT !.ops = @ + 1]
    /\ last' = Ran("setEraser", 0, TRUE, "none", FALSE)
    /\ Track(last')
    /\ UNCHANGED <<drawing, lastPoint, color, size, undoStack, redoStack, canvas,
                   undoBtnDisabled, redoBtnDisabled, captured, pending, envVars,
                   gesturePointer>>

\* colorPicker 'input' listener
ColorInput(c) ==
    /\ color' = c
    /\ ctx' = IF tool = "brush" THEN [ctx EXCEPT !.strokeStyle = c] ELSE ctx
    /\ count' = [count EXCEPT !.ops = @ + 1]
    /\ last' = Ran("color", 0, TRUE, "none", FALSE)
    /\ Track(last')
    /\ UNCHANGED <<drawing, lastPoint, tool, size, undoStack, redoStack, canvas,
                   undoBtnDisabled, redoBtnDisabled, captured, pending, envVars,
                   gesturePointer>>

\* sizeRange 'input' listener
SizeInput(s) ==
    /\ size' = s
    /\ ctx' = [ctx EXCEPT !.lineWidth = s]
    /\ count' = [count EXCEPT !.ops = @ + 1]
    /\ last' = Ran("size", 0, TRUE, "none", FALSE)
    /\ Track(last')
    /\ UNCHANGED <<drawing, lastPoint, tool, color, undoStack, redoStack, canvas,
                   undoBtnDisabled, redoBtnDisabled, captured, pending, envVars,
                   gesturePointer>>

\* The layout gives the element the display size r at pixel ratio d, and the
\* window's 'resize' event runs the debounced listener of line 62:
\* clearTimeout, setTimeout.
WindowResize(r, d) ==
    /\ rect' = r
    /\ dpr' = d
    /\ resizeTimer' = TRUE
    /\ count' = [count EXCEPT !.ops = @ + 1]
    /\ last' = Ran("resize", 0, TRUE, "none", FALSE)
    /\ Track(last')
    /\ UNCHANGED <<progVars, gesturePointer>>

\* a timer callback that captures the surface after it has resized it
ResizeTimerFiresCapturing ==
    /\ resizeTimer
    /\ resizeTimer' = FALSE
    /\ LET rs == ResizeCanvas(canvas, ctx, rect, dpr)
           r == PushUndo(Hist, rs.cv, count.caps, TRUE)
       IN /\ canvas' = rs.cv
          /\ ctx' = rs.cx
          /\ SetHist(r.h)
          /\ last' = Ran("resizeCanvas", 0, TRUE, "none", rs.threw)
    /\ Track(last')
    /\ UNCHANGED <<drawing, lastPoint, tool, color, size, captured, pending,
                   rect, dpr, gesturePointer, count>>

\* The debounce timer of line 75 fires: resizeCanvas()
ResizeTimerFires ==
    /\ resizeTimer
    /\ resizeTimer' = FALSE
    /\ LET rs == ResizeCanvas(canvas, ctx, rect, dpr)
       IN /\ canvas' = rs.cv
          /\ ctx' = rs.cx
          /\ last' = Ran("resizeCanvas", 0, TRUE, "none", rs.threw)
    /\ Track(last')
    /\ UNCHANGED <<drawing, lastPoint, tool, color, size, undoStack, redoStack,
                   undoBtnDisabled, redoBtnDisabled, captured, pending,
                   rect, dpr, gesturePointer, count>>

\* ---- initialisation --------------------------------------------------------

\* The state after the script has run (lines 3-22, 286, 288): the element's
\* bitmap, attr.width by attr.height, is filled white, then init() resizes it
\* to the display size r at pixel ratio d, selects the brush, updates the
\* buttons (attachUI) and captures the blank surface.
InitWith(attr, r, d, c, s, encOk) ==
    LET cv0 == FillBackgroundWhite(Bitmap(attr.width, attr.height), DefaultCtx)
        rs == ResizeCanvas(cv0, DefaultCtx, r, d)
        h0 == UpdateUndoRedoButtons([undo |-> <<>>, redo |-> <<>>,
                                     undoDis |-> FALSE, redoDis |-> FALSE])
        p == PushUndo(h0, rs.cv, 0, encOk)
    IN /\ drawing = FALSE
       /\ lastPoint = NULL
       /\ tool = "brush"
       /\ color = c
       /\ size = s
       /\ canvas = rs.cv
       /\ ctx = SetBrushCtx(rs.cx, c)
       /\ undoStack = p.h.undo
       /\ redoStack = p.h.redo
       /\ undoBtnDisabled = p.h.undoDis
       /\ redoBtnDisabled = p.h.redoDis
       /\ captured = {}
       /\ pending = {}
       /\ rect = r
       /\ dpr = d
       /\ resizeTimer = FALSE
       /\ last = Ran("init", 0, TRUE, Enc(encOk), p.threw)
       /\ gesturePointer = 0
       /\ count = [ops |-> 0, done |-> 0, caps |-> IF encOk THEN 1 ELSE 0, reqs |-> 0,
                  fails |-> IF encOk THEN 0 ELSE 1]
       /\ trip = [NoTrip EXCEPT !.start = [tool |-> "brush", color |-> c, size |-> s]]

\* The display is two cells wide and one high at pixel ratio 1, and the
\* element's own bitmap is as large; the colour picker holds red and the size
\* range 1.
Display == [width |-> 2, height |-> 1]

\* The positions of pointer events: over each cell of the display.
Points == [x : 0..(Display.width - 1), y : 0..(Display.height - 1)]

Init == \E encOk \in BOOLEAN : InitWith(Display, Display, 1, "red", 1, encOk)

InitOk == InitWith(Display, Display, 1, "red", 1, TRUE)

\* ---- specifications --------------------------------------------------------

Budget == count.ops < MaxOps

\* One pointer; a capture may fail.
Next ==
    \/ Budget /\ \E ev \in Points : PointerDown(1, ev)
    \/ \E ev \in Points : PointerMove(1, ev)
    \/ \E encOk \in BOOLEAN : PointerUp(1, encOk)
    \/ \E encOk \in BOOLEAN : PointerCancel(1, encOk)
    \/ (Len(undoStack) > 1 => Budget) /\ Undo
    \/ (Len(redoStack) > 0 => Budget) /\ Redo
    \/ \E r \in pending : ImgOnload(r)
    \/ Budget /\ \E encOk \in BOOLEAN : Clear(encOk)

Spec == Init /\ [][Next]_vars

\* Two pointers on the canvas; pointer events only, every capture succeeds.
NextMulti ==
    \/ Budget /\ \E id \in {1, 2}, ev \in Points : PointerDown(id, ev)
    \/ \E id \in {1, 2}, ev \in Points : PointerMove(id, ev)
    \/ \E id \in {1, 2} : PointerUp(id, TRUE)
    \/ \E id \in {1, 2} : PointerCancel(id, TRUE)

SpecMulti == InitOk /\ [][NextMulti]_vars

\* The scenario of section 8: up to LongGestures completed gestures of one
\* pointer (pointer-down, pointer-moves, then pointer-up or pointer-cancel),
\* every capture succeeding, then, after the last of them, undo repeated,
\* each restore completing before the next undo.
NextLong ==
    \/ /\ ~drawing /\ count.done < LongGestures /\ count.reqs = 0
       /\ \E ev \in Points : PointerDown(1, ev)
    \/ drawing /\ \E ev \in Points : PointerMove(1, ev)
    \/ drawing /\ PointerUp(1, TRUE)
    \/ drawing /\ PointerCancel(1, TRUE)
    \/ ~drawing /\ count.done = LongGestures /\ pending = {} /\ Undo
    \/ \E r \in pending : ImgOnload(r)

SpecLong == InitOk /\ [][NextLong]_vars

\* The display sizes the layout gives the element (the last is an element
\* that is not displayed) and the pixel ratios of the window.
Rects == {Display, [width |-> 1, height |-> 1], [width |-> 0, height |-> 0]}
Ratios == {1, 2}

\* One pointer, undo, and the window resized under the canvas; every capture
\* succeeds.
NextResize ==
    \/ Budget /\ \E ev \in Points : PointerDown(1, ev)
    \/ \E ev \in Points : PointerMove(1, ev)
    \/ PointerUp(1, TRUE)
    \/ Budget /\ \E r \in Rects, d \in Ratios : WindowResize(r, d)
    \/ ResizeTimerFires
    \/ (Len(undoStack) > 1 => Budget) /\ Undo
    \/ \E r \in pending : ImgOnload(r)

SpecResize == InitOk /\ [][NextResize]_vars

\* One pointer, the tool, colour and size controls, undo, and the window
\* moved between pixel ratios at one display size; every capture succeeds.
NextTools ==
    \/ Budget /\ \E ev \in Points : PointerDown(1, ev)
    \/ \E ev \in Points : PointerMove(1, ev)
    \/ PointerUp(1, TRUE)
    \/ Budget /\ SetBrush
    \/ Budget /\ SetEraser
    \/ Budget /\ \E c \in PickerColors : ColorInput(c)
    \/ Budget /\ \E s \in Sizes : SizeInput(s)
    \/ Budget /\ \E d \in Ratios : WindowResize(Display, d)
    \/ ResizeTimerFires
    \/ (Len(undoStack) > 1 => Budget) /\ Undo
    \/ \E r \in pending : ImgOnload(r)

SpecTools == InitOk /\ [][NextTools]_vars

\* A long run of taps (pointer-down, pointer-up) of one pointer and, once all
\* but MaxOps of them have completed, up to MaxOps undo and redo calls that
\* act, between the taps and after them; each restore completes before the
\* next tap, undo or redo.
NextNav ==
    \/ /\ ~drawing /\ pending = {} /\ count.done < LongGestures
       /\ \E ev \in Points : PointerDown(1, ev)
    \/ drawing /\ PointerUp(1, TRUE)
    \/ /\ ~drawing /\ pending = {} /\ count.done >= LongGestures - MaxOps
       /\ Len(undoStack) > 1 => count.reqs < MaxOps
       /\ Undo
    \/ /\ ~drawing /\ pending = {} /\ count.done >= LongGestures - MaxOps
       /\ Len(redoStack) > 0 => count.reqs < MaxOps
       /\ Redo
    \/ \E r \in pending : ImgOnload(r)

SpecNav == InitOk /\ [][NextNav]_vars

\* ---- properties -------------------------------------------------------------

EndOps == {"pointerup", "pointercancel"}

Top(stack) == stack[Len(stack)]

\* C3: when a gesture completes, by pointer-up or by pointer-cancel, the redo
\* list is empty and no gesture is active in the resulting state, whatever
\* the redo list held and whatever undo and redo calls came before.
C3_RedoEmptyAfterGesture ==
    (last.op \in EndOps /\ last.acted) => (redoStack = <<>> /\ ~drawing)

\* A second gesture has just completed by pointer-cancel, and the only other
\* operation of the run besides the two pointerdowns was an undo that acted:
\* it came after the first gesture's capture, so the redo list held an entry
\* when the second gesture ended.
C3_Witness ==
    /\ last.op = "pointercancel" /\ last.acted
    /\ count.done = 2 /\ count.reqs = 1 /\ count.ops = 3 /\ count.fails = 0
    /\ Len(undoStack) = 2

\* C4 as claimed: an undo issued with no gesture active, no restore pending
\* and more than one entry, then its restore, a redo and its restore, leave
\* the surface as it was before the undo (here: when no capture failed).
C4_RoundTrip ==
    (trip.phase = "done" /\ count.fails = 0) => canvas = trip.before

\* C5: undo() with at most one entry in the undo list, and redo() with an
\* empty redo list, leave the surface, both lists and the pending restores
\* unchanged, and do not throw.
C5_UnderflowNoOp ==
    [][((last'.op = "undo" /\ Len(undoStack) <= 1)
        \/ (last'.op = "redo" /\ Len(redoStack) = 0))
       => (/\ UNCHANGED <<canvas, undoStack, redoStack, pending>>
           /\ ~last'.threw)]_vars

\* undo() has just returned at its guard with one entry left, after an
\* undo that moved an entry to the redo list.
C5_Witness ==
    /\ last.op = "undo" /\ ~last.acted
    /\ Len(undoStack) = 1 /\ Len(redoStack) > 0

\* C6: between handlers, the undo control is enabled iff the undo list holds
\* more than one entry, and the redo control iff the redo list holds any.
C6_ButtonsDerived ==
    /\ (~undoBtnDisabled) = (Len(undoStack) > 1)
    /\ (~redoBtnDisabled) = (Len(redoStack) > 0)

\* Both controls are enabled in a run in which a capture has failed.
C6_Witness ==
    /\ count.fails = 1
    /\ ~undoBtnDisabled /\ ~redoBtnDisabled

\* C7: while no gesture is active, a pointer-move, pointer-up or
\* pointer-cancel changes neither the surface, the last point, the gesture
\* state, the context nor the lists, and attempts no capture.
C7_IdleNoOp ==
    [][(~drawing /\ last'.op \in {"pointermove", "pointerup", "pointercancel"})
       => (/\ UNCHANGED <<canvas, lastPoint, drawing, ctx, undoStack, redoStack>>
           /\ count'.caps = count.caps
           /\ last'.enc = "none")]_vars

\* A pointer-up has just returned at its guard, after a completed gesture
\* that painted the surface.
C7_Witness ==
    /\ last.op = "pointerup" /\ ~last.acted /\ ~drawing
    /\ count.done >= 1
    /\ \E c \in DOMAIN canvas.px : canvas.px[c] = "red"

\* C8: a capture whose encoding fails (at initialisation, at gesture end or
\* at clear) leaves the undo list as it was and throws nothing to its caller;
\* and after a failure a capture that succeeds still appends the surface as
\* the newest entry, within the cap.
C8_EncodingFailure ==
    /\ (last.op = "init" /\ last.enc = "failed") => (undoStack = <<>> /\ ~last.threw)
    /\ [][/\ last'.enc = "failed" => (undoStack' = undoStack /\ ~last'.threw)
          /\ (count.fails = 1 /\ last'.enc = "ok")
               => /\ Len(undoStack') = Min(Len(undoStack) + 1, MAX_STEPS)
                  /\ Top(undoStack').px = canvas.px
                  /\ ~last'.threw]_vars

\* A gesture has just ended with a failed capture while the undo list held
\* two entries.
C8_Witness ==
    /\ last.op \in EndOps /\ last.acted /\ last.enc = "failed"
    /\ Len(undoStack) = 2

\* C9 as claimed: after a burst of undo and redo calls, once every image has
\* loaded, the surface shows the newest entry of the undo list.
C9_LastRequestWins ==
    (pending = {} /\ last.op = "onload" /\ trip.quiet /\ Len(undoStack) > 0)
       => canvas.px = Top(undoStack).px

\* C10 as claimed: while a gesture begun by one pointer is active, an event of
\* another pointer changes neither the last point, the path, the surface,
\* the gesture state nor the undo list.
C10_OtherPointerIgnored ==
    [][(/\ drawing
        /\ last'.op \in {"pointerdown", "pointermove", "pointerup", "pointercancel"}
        /\ last'.id /= gesturePointer)
       => UNCHANGED <<lastPoint, ctx, canvas, drawing, undoStack>>]_vars

\* C1: after N completed gestures and no undo, redo or clear, every capture
\* having succeeded, the undo list holds min(N + 1, 30) entries.
C1_LengthAfterGestures ==
    count.reqs = 0 => Len(undoStack) = Min(count.done + 1, MAX_STEPS)

\* 35 gestures have completed, no undo yet, and the list is at its cap.
C1_Witness ==
    count.done = 35 /\ count.reqs = 0 /\ ~drawing /\ Len(undoStack) = MAX_STEPS

\* The entries from the oldest of the undo list to the one undone first.
Reverse(q) == [i \in 1..Len(q) |-> q[Len(q) + 1 - i]]
Timeline == undoStack \o Reverse(redoStack)

\* C2 as claimed: the undo list never holds more than 30 entries, and after
\* 35 completed gestures the 30 entries kept end, at the oldest, with the
\* snapshot taken after the 5th gesture, where repeated undo stops.
C2_FloorAtFifth ==
    /\ Len(undoStack) <= MAX_STEPS
    /\ count.done = 35 => (Len(Timeline) = MAX_STEPS /\ undoStack[1].id = 5)

\* C2 as amended: the undo list never holds more than 30 entries; a capture
\* made when it is full discards exactly the oldest entry and keeps the order
\* of the others; after N completed gestures the entries kept are those of
\* the last min(N + 1, 30) captures in order, so that after 35 gestures
\* repeated undo stops at the snapshot taken after the 6th gesture.
C2_FloorAtSixth ==
    /\ [](/\ Len(undoStack) <= MAX_STEPS
          /\ ~drawing =>
               /\ Len(Timeline) = Min(count.done + 1, MAX_STEPS)
               /\ \A k \in 1..Len(Timeline) :
                     Timeline[k].id = Max(0, count.done + 1 - MAX_STEPS) + k - 1
          /\ count.done = 35 => undoStack[1].id = 6)
    /\ [][(Len(undoStack) = MAX_STEPS /\ last'.enc = "ok")
          => undoStack' = Append(Tail(undoStack), ToDataURL(canvas, count.caps))]_vars

\* After 35 gestures undo has been repeated until it returned at its guard:
\* one entry is left, the snapshot taken after the 6th gesture.
C2_Witness ==
    /\ count.done = 35 /\ last.op = "undo" /\ ~last.acted
    /\ Len(undoStack) = 1 /\ undoStack[1].id = 6
    /\ Len(redoStack) = MAX_STEPS - 1

\* C11 as claimed: a resize that ran while the display size was zero loses no
\* content, so once a later resize has run at the display size the surface
\* had before, the surface is what it was before the display size was zero.
C11_ZeroResizeKeepsContent ==
    (/\ last.op = "resizeCanvas"
     /\ trip.zeroed /= NULL
     /\ trip.zeroed.back
     /\ rect.width * dpr = trip.zeroed.cv.width
     /\ rect.height * dpr = trip.zeroed.cv.height)
    => canvas = trip.zeroed.cv

\* The colour of the surface at the logical point (x, y) under the transform
\* scale, and whether the surface contains that point.
Sample(cv, scale, x, y) == cv.px[<<x * scale, y * scale>>]
Contains(cv, scale, x, y) == x * scale < cv.width /\ y * scale < cv.height

\* A logical point of the surface that a stroke has painted.
Marked(cv, scale, x, y) ==
    Contains(cv, scale, x, y) /\ Sample(cv, scale, x, y) \notin {"W", "T"}

\* C13 as claimed: a resize that completes, at any non-zero display size and
\* under any change of the pixel ratio, leaves the mark at a logical point
\* that the resized surface still contains at that logical point.
C13_MarkKeepsPosition ==
    [][(last'.op = "resizeCanvas" /\ ~last'.threw)
       => \A x \in 0..(Display.width - 1), y \in 0..(Display.height - 1) :
             (Marked(canvas, ctx.scale, x, y) /\ Contains(canvas', ctx'.scale, x, y))
                => Sample(canvas', ctx'.scale, x, y) = Sample(canvas, ctx.scale, x, y)]_vars

\* C14 as claimed: in every state the backing resolution is the display size
\* times the pixel ratio.
C14_BackingMatchesDisplay ==
    /\ canvas.width = rect.width * dpr
    /\ canvas.height = rect.height * dpr

\* C15: neither a resize trigger nor the resize it leads to changes the undo
\* list or the redo list.
C15_ResizeKeepsHistory ==
    [][last'.op \in {"resize", "resizeCanvas"}
       => UNCHANGED <<undoStack, redoStack>>]_vars

\* A resize has just given the surface another size than that of the newest
\* snapshot, while both lists hold entries.
C15_Witness ==
    /\ last.op = "resizeCanvas" /\ ~last.threw
    /\ Len(undoStack) >= 2 /\ Len(redoStack) >= 1
    /\ Top(undoStack).w /= canvas.width

\* C12 as claimed: while the eraser is the current tool, every pixel that a
\* pointer-move's stroke covers has its coverage removed.
C12_EraserRemovesCoverage ==
    [][(tool = "eraser" /\ last'.op = "pointermove" /\ last'.acted)
       => \A c \in DOMAIN canvas'.px : Covered(ctx', c) => canvas'.px[c] = "T"]_vars

\* An image over the white background: its transparent pixels show white.
OverWhite(px) == [c \in DOMAIN px |-> IF px[c] = "T" THEN "W" ELSE px[c]]

\* C16 as claimed: when the image of a restore loads, the surface becomes the
\* restored entry over the white background, whatever the tool (for an entry
\* of the surface's resolution, no resize being due).
C16_RestoreIgnoresTool ==
    [][(last'.op = "onload" /\ dpr = ctx.scale)
       => \A r \in pending :
             (r.req = last'.id /\ r.url.w = canvas.width /\ r.url.h = canvas.height)
                => canvas'.px = OverWhite(r.url.px)]_vars

\* The context a gesture renders with when it uses the tool state st.
RenderCtx(cx, st) ==
    [cx EXCEPT !.gco = IF st.tool = "eraser" THEN "destination-out" ELSE "source-over",
               !.strokeStyle = IF st.tool = "brush" THEN st.color ELSE "K",
               !.lineWidth = st.size]

\* C18 as claimed: each pointer-move of a gesture renders its path with the
\* tool, colour and width read at the gesture's pointer-down.
C18_ToolStateReadAtStart ==
    [][(drawing /\ last'.op = "pointermove" /\ trip.start /= NULL)
       => canvas' = Stroke(canvas, RenderCtx(ctx', trip.start))]_vars

\* C17 as claimed: right after a clear whose capture succeeded, the newest
\* entry of the undo list is a snapshot of the cleared surface, and the redo
\* list is empty.
C17_ClearCapturesAfter ==
    (last.op = "clear" /\ last.enc = "ok")
       => (Top(undoStack).px = canvas.px /\ redoStack = <<>>)

\* C19 as claimed: with no gesture active, no restore pending and no capture
\* failed, the surface is the newest entry of the undo list.
C19_SurfaceIsNewestEntry ==
    (~drawing /\ pending = {} /\ count.fails = 0)
       => canvas.px = Top(undoStack).px

\* C20: undo() and redo() leave the sequence made of the undo list followed
\* by the reversed redo list as it is, and in every state the two lists hold
\* at most 30 entries together.
C20_NavigationMovesEntries ==
    /\ [](Len(undoStack) + Len(redoStack) <= MAX_STEPS)
    /\ [][last'.op \in {"undo", "redo"} => Timeline' = Timeline]_vars

\* A redo has just moved an entry back while the two lists hold 30 entries
\* together and the redo list still holds one.
C20_Witness ==
    /\ last.op = "redo" /\ last.acted
    /\ Len(undoStack) + Len(redoStack) = MAX_STEPS
    /\ Len(redoStack) >= 1

=============================================================================
